---- MODULE Spec2Model ----
(***************************************************************************)
(* Tennis_game.py: a Streamlit dashboard.  The script is re-executed from  *)
(* top to bottom on every user interaction (one render cycle).  State that *)
(* survives a cycle: the cached connection (st.cache_resource), the cached *)
(* query results (st.cache_data) and the three st.session_state fields.    *)
(* A DataFrame is a sequence of rows, a row is a record column -> value;   *)
(* the empty DataFrame pd.DataFrame() is <<>> (no rows and no columns).    *)
(***************************************************************************)
EXTENDS Integers, Sequences, FiniteSets, TLC

VARIABLES
    server_up,          \* environment: does pymysql.connect succeed right now
    db_tables,          \* environment: query string -> rows the database holds
    db_fail,            \* environment: queries whose execution raises pymysql.Error
    conn_cache,         \* st.cache_resource entry of get_connection
    connect_calls,      \* number of pymysql.connect attempts so far
    data_cache,         \* st.cache_data entries of fetch_table, per query string
    execute_calls,      \* number of cursor.execute calls so far, per query string
    session_state,      \* st.session_state: filters_applied, submitted_country,
                        \* submitted_category
    user_action,        \* what triggered the last script run
    selected_country,   \* value of the country selectbox in the last run
    selected_category,  \* value of the category selectbox in the last run
    df_merged,          \* the views the last run handed to st.dataframe
    venue_info,
    comp_info,
    filtered_df,
    filtered_comp,
    top10,
    raised              \* an exception escaped the last script run

vars == <<server_up, db_tables, db_fail, conn_cache, connect_calls, data_cache,
          execute_calls, session_state, user_action, selected_country, selected_category, df_merged,
          venue_info, comp_info, filtered_df, filtered_comp, top10, raised>>

env == <<db_tables, db_fail>>
caches == <<conn_cache, connect_calls, data_cache, execute_calls>>
views == <<user_action, selected_country, selected_category, df_merged, venue_info,
           comp_info, filtered_df, filtered_comp, top10, raised>>

(***************************************************************************)
(* Values                                                                  *)
(***************************************************************************)
\* Python None / SQL NULL / the NaN pandas fills in for an unmatched row.
None == "None"
\* A missing rank (NaN); sort_values puts it last.
NaN == 0 - 1
\* cache entry of a function that has not been called yet
Unset == "unset"
\* the pymysql connection object
Conn == "conn"

Q_competitors == "SELECT * FROM competitors"
Q_rankings == "SELECT * FROM competitor_rankings"
Q_complexes == "SELECT * FROM complexes"
Q_venues == "SELECT * FROM venues"
Q_categories == "SELECT * FROM categories"
Q_competitions == "SELECT * FROM competitions"

Queries == {Q_competitors, Q_rankings, Q_complexes, Q_venues, Q_categories,
            Q_competitions}

(***************************************************************************)
(* Bounds of the model                                                     *)
(***************************************************************************)
\* longest enumerated table
MaxRows == 2
\* cap of the call counters (never binding while the caches work)
MaxCalls == 2

\* head(10)
TopN == 10

Min(a, b) == IF a <= b THEN a ELSE b

(***************************************************************************)
(* DataFrame helpers (pandas)                                              *)
(***************************************************************************)
\* df.empty
empty(df) == Len(df) = 0

\* df[col] is defined; pd.DataFrame() has no columns, so df[col] raises KeyError
HasColumn(df, col) == Len(df) > 0 /\ col \in DOMAIN df[1]

\* bool(v) of an optional string: None and "" are falsy
Truthy(v) == v # None /\ v # ""

\* pd.DataFrame(cursor.fetchall()): a list of dicts becomes rows, no rows
\* becomes the DataFrame without columns
DataFrame(result) == IF Len(result) = 0 THEN <<>> ELSE result

\* rows of pd.merge(left, right, on=key, how="left"): for each left row, in
\* left's order, one output row per right row with an equal key (in right's
\* order), or one row with the right columns null when there is none
RECURSIVE merge_rows(_, _, _)
merge_rows(left, right, key) ==
    IF Len(left) = 0 THEN <<>>
    ELSE LET l == Head(left)
             Match(r) == r[key] = l[key]
             matches == SelectSeq(right, Match)
             nulls == [c \in (DOMAIN right[1]) \ {key} |-> None]
             rows == IF Len(matches) = 0
                     THEN <<l @@ nulls>>
                     ELSE [i \in 1..Len(matches) |-> l @@ matches[i]]
         IN  rows \o merge_rows(Tail(left), right, key)

\* rows of an inner merge: left rows without a match are dropped
RECURSIVE inner_rows(_, _, _)
inner_rows(left, right, key) ==
    IF Len(left) = 0 THEN <<>>
    ELSE LET l == Head(left)
             Match(r) == r[key] = l[key]
             matches == SelectSeq(right, Match)
         IN  [i \in 1..Len(matches) |-> l @@ matches[i]]
             \o inner_rows(Tail(left), right, key)

\* pd_merge with how="inner" in place of how="left"
pd_merge_inner(left, right, key) ==
    IF HasColumn(left, key) /\ HasColumn(right, key)
    THEN [df |-> inner_rows(left, right, key), raised |-> FALSE]
    ELSE [df |-> <<>>, raised |-> TRUE]

\* pd.merge(left, right, on=key, how="left"); KeyError when a side lacks key
pd_merge(left, right, key) ==
    IF HasColumn(left, key) /\ HasColumn(right, key)
    THEN [df |-> merge_rows(left, right, key), raised |-> FALSE]
    ELSE [df |-> <<>>, raised |-> TRUE]

\* rank a sorts before rank b (ascending, NaN last)
RankBefore(a, b) == a # NaN /\ (b = NaN \/ a < b)

\* insert row r into the sorted sequence s after every row not sorting after it
RECURSIVE insert_sorted(_, _)
insert_sorted(s, r) ==
    IF Len(s) = 0 THEN <<r>>
    ELSE IF RankBefore(r.rank, Head(s).rank) THEN <<r>> \o s
    ELSE <<Head(s)>> \o insert_sorted(Tail(s), r)

\* df.sort_values("rank"): ascending, NaN last, ties in input order
RECURSIVE sort_values(_)
sort_values(df) ==
    IF Len(df) = 0 THEN <<>>
    ELSE insert_sorted(sort_values(SubSeq(df, 1, Len(df) - 1)), df[Len(df)])

\* df.head(n)
head(df, n) == SubSeq(df, 1, Min(n, Len(df)))

\* sorted(df[col].dropna().unique()) if not df.empty else []  (as a set: the
\* order only decides which option the selectbox preselects)
option_list(df, col) ==
    IF ~empty(df)
    THEN [vals |-> {df[i][col] : i \in 1..Len(df)} \ {None},
          raised |-> ~HasColumn(df, col)]
    ELSE [vals |-> {}, raised |-> FALSE]

\* st.selectbox(options): one of the options, None when there is none
selectbox(options) == IF options = {} THEN {None} ELSE options

(***************************************************************************)
(* Data access                                                             *)
(***************************************************************************)
\* get_connection without @st.cache_resource: every call connects anew
get_connection_uncached(cache) ==
    [value |-> IF server_up THEN Conn ELSE None, connects |-> 1, raised |-> FALSE]

\* @st.cache_resource get_connection(): the cached value when there is one,
\* else one pymysql.connect attempt whose outcome (a connection, or None
\* after pymysql.Error) becomes the cached value
get_connection(cache) ==
    IF cache # Unset
    THEN [value |-> cache, connects |-> 0, raised |-> FALSE]
    ELSE [value |-> IF server_up THEN Conn ELSE None, connects |-> 1,
          raised |-> FALSE]

\* fetch_table without the except clause: a failing query raises to the caller
fetch_table_no_except(query, entry, cache) ==
    IF entry.cached
    THEN [df |-> entry.df, entry |-> entry, executes |-> 0, connects |-> 0,
          raised |-> FALSE]
    ELSE [df |-> IF cache = Conn /\ query \notin db_fail
                 THEN DataFrame(db_tables[query]) ELSE <<>>,
          entry |-> [cached |-> query \notin db_fail,
                     df |-> IF cache = Conn /\ query \notin db_fail
                            THEN DataFrame(db_tables[query]) ELSE <<>>],
          executes |-> IF cache = Conn THEN 1 ELSE 0,
          connects |-> 0,
          raised |-> cache = Conn /\ query \in db_fail]

\* @st.cache_data fetch_table(query): entry is the cache entry of the query,
\* cache the connection cache at the time of the call
fetch_table(query, entry, cache) ==
    IF entry.cached
    THEN [df |-> entry.df, entry |-> entry, executes |-> 0, connects |-> 0,
          raised |-> FALSE]
    ELSE LET g == get_connection(cache)
             df == IF g.value = Conn /\ query \notin db_fail
                   THEN DataFrame(db_tables[query])
                   ELSE <<>>
         IN  [df |-> df,
              entry |-> [cached |-> TRUE, df |-> df],
              executes |-> IF g.value = Conn THEN 1 ELSE 0,
              connects |-> g.connects,
              raised |-> g.raised]

(***************************************************************************)
(* Join engine, filter state, filter engine, top 10                        *)
(***************************************************************************)
\* joinLeft that keeps the left table as it is when the right one has no rows
joinLeft_keep_left(left, right, key) ==
    IF ~empty(right) /\ ~empty(left)
    THEN pd_merge(left, right, key)
    ELSE [df |-> left, raised |-> FALSE]

\* lines 67-80: merge only when both tables have rows, else pd.DataFrame()
joinLeft(left, right, key) ==
    IF ~empty(right) /\ ~empty(left)
    THEN pd_merge(left, right, key)
    ELSE [df |-> <<>>, raised |-> FALSE]

\* lines 49-52
DefaultState ==
    [filters_applied |-> FALSE, submitted_country |-> None,
     submitted_category |-> None]

\* apply that sets the flag but keeps the values stored before
apply_stale(state, country, category) ==
    [filters_applied |-> TRUE, submitted_country |-> state.submitted_country,
     submitted_category |-> state.submitted_category]

\* lines 130-134: the form was submitted
apply(state, country, category) ==
    [filters_applied |-> TRUE, submitted_country |-> country,
     submitted_category |-> category]

\* clear that resets the flag alone
clear_flag_only(state) ==
    [filters_applied |-> FALSE, submitted_country |-> state.submitted_country,
     submitted_category |-> state.submitted_category]

\* lines 139-142: the clear button was pressed
clear(state) ==
    [filters_applied |-> FALSE, submitted_country |-> None,
     submitted_category |-> None]

\* df[df[col] == value]: a null cell compares unequal to everything
select_eq(df, col, value) ==
    LET Keep(r) == r[col] # None /\ r[col] = value
    IN  IF HasColumn(df, col)
        THEN [df |-> SelectSeq(df, Keep), raised |-> FALSE]
        ELSE [df |-> <<>>, raised |-> TRUE]

\* filterByCountry without the test that a country is stored
filterByCountry_no_value_test(rows, state) ==
    IF state.filters_applied /\ ~empty(rows)
    THEN select_eq(rows, "country", state.submitted_country)
    ELSE [df |-> rows, raised |-> FALSE]

\* lines 158-160
filterByCountry(rows, state) ==
    IF state.filters_applied /\ Truthy(state.submitted_country) /\ ~empty(rows)
    THEN select_eq(rows, "country", state.submitted_country)
    ELSE [df |-> rows, raised |-> FALSE]

\* lines 162-164
filterByCategory(rows, state) ==
    IF state.filters_applied /\ Truthy(state.submitted_category) /\ ~empty(rows)
    THEN select_eq(rows, "category_name", state.submitted_category)
    ELSE [df |-> rows, raised |-> FALSE]

\* the top 10 taken from the filtered frame
top10_source_filtered(merged, filtered) == filtered

\* lines 177-178: the frame the top 10 is taken from is df_merged (the
\* unfiltered join), not filtered_df
top10_source(merged, filtered) == merged

\* lines 177-181: top10 is computed only when df_merged has rows
topN(rows, n) ==
    IF ~empty(rows)
    THEN [df |-> head(sort_values(rows), n), raised |-> ~HasColumn(rows, "rank")]
    ELSE [df |-> <<>>, raised |-> FALSE]

(***************************************************************************)
(* One run of the script                                                   *)
(***************************************************************************)
\* the table lines 59-64 assign for query q after get_connection returned conn
Load(q, conn) ==
    IF conn = Conn
    THEN fetch_table(q, data_cache[q], conn)
    ELSE [df |-> <<>>, entry |-> data_cache[q], executes |-> 0, connects |-> 0,
          raised |-> FALSE]

RunScript(action) ==
    LET g == get_connection(conn_cache)
        conn == g.value
        F == [q \in Queries |-> Load(q, conn)]
        df_competitors == F[Q_competitors].df
        df_rankings == F[Q_rankings].df
        df_complexes == F[Q_complexes].df
        df_venues == F[Q_venues].df
        df_category == F[Q_categories].df
        df_competition == F[Q_competitions].df
        merged == joinLeft(df_rankings, df_competitors, "competitor_id")
        venue == joinLeft(df_venues, df_complexes, "complex_id")
        comp == joinLeft(df_competition, df_category, "category_id")
        country_list == option_list(df_competitors, "country")
        category_list == option_list(df_category, "category_name")
    IN  /\ connect_calls < MaxCalls
        /\ \A q \in Queries : execute_calls[q] < MaxCalls
        /\ \E country \in selectbox(country_list.vals),
              category \in selectbox(category_list.vals) :
            LET state == IF action = "apply"
                         THEN apply(session_state, country, category)
                         ELSE IF action = "clear" THEN clear(session_state)
                         ELSE session_state
                fdf == filterByCountry(merged.df, state)
                fcomp == filterByCategory(comp.df, state)
                top == topN(top10_source(merged.df, fdf.df), TopN)
            IN  /\ conn_cache' = conn
                /\ connect_calls' = connect_calls + g.connects
                        + F[Q_competitors].connects + F[Q_rankings].connects
                        + F[Q_complexes].connects + F[Q_venues].connects
                        + F[Q_categories].connects + F[Q_competitions].connects
                /\ data_cache' = [q \in Queries |-> F[q].entry]
                /\ execute_calls' =
                        [q \in Queries |-> execute_calls[q] + F[q].executes]
                /\ session_state' = state
                /\ user_action' = action
                /\ selected_country' = country
                /\ selected_category' = category
                /\ df_merged' = merged.df
                /\ venue_info' = venue.df
                /\ comp_info' = comp.df
                /\ filtered_df' = fdf.df
                /\ filtered_comp' = fcomp.df
                /\ top10' = top.df
                /\ raised' = \/ g.raised
                             \/ \E q \in Queries : F[q].raised
                             \/ merged.raised \/ venue.raised \/ comp.raised
                             \/ country_list.raised \/ category_list.raised
                             \/ fdf.raised \/ fcomp.raised \/ top.raised
        /\ UNCHANGED <<server_up, env>>

\* a rerun without a button press (first load, any other interaction)
Rerun == RunScript("rerun")

\* "Apply Filters": st.form_submit_button returns True in this run
ApplyFilters == RunScript("apply")

\* "Clear Filters / Show All": st.sidebar.button returns True in this run
ClearFilters == RunScript("clear")

\* the database server becomes reachable or unreachable
ServerToggle ==
    /\ server_up' = ~server_up
    /\ UNCHANGED <<env, caches, session_state, views>>

(***************************************************************************)
(* Databases the model runs against                                        *)
(***************************************************************************)
Seqs(S, n) == UNION {[1..k -> S] : k \in 0..n}

Ids == {1, 2}
\* rankings tables of up to n rows, ranked in descending order
RankingTables(n) ==
    UNION {{[i \in 1..k |-> [competitor_id |-> ids[i], rank |-> k + 1 - i]] :
                ids \in [1..k -> Ids]} : k \in 0..n}
CompetitorRows == [competitor_id : Ids, country : {"France", ""}]
ComplexRows == [complex_id : Ids, complex_name : {"Arena"}]
VenueRows == [complex_id : Ids, venue_name : {"Court"}]
CategoryRows == [category_id : Ids, category_name : {"ATP", ""}]
CompetitionRows == [category_id : Ids, competition_name : {"Open"}]

BaseCompetitors == <<[competitor_id |-> 1, country |-> "France"]>>
BaseRankings ==
    <<[competitor_id |-> 1, rank |-> 1], [competitor_id |-> 2, rank |-> 2]>>
BaseComplexes == <<[complex_id |-> 1, complex_name |-> "Arena"]>>
BaseVenues ==
    <<[complex_id |-> 1, venue_name |-> "Court"],
      [complex_id |-> 2, venue_name |-> "Court"]>>
BaseCategories == <<[category_id |-> 1, category_name |-> "ATP"]>>
BaseCompetitions ==
    <<[category_id |-> 2, competition_name |-> "Open"],
      [category_id |-> 1, competition_name |-> "Open"]>>

\* a rankings table longer than the top 10, with ties and a missing rank, and
\* competitors for it: one without a country, one ranked by no row
LongRankings ==
    [i \in 1..12 |->
        [competitor_id |-> 1 + (i % 3),
         rank |-> IF i = 4 THEN NaN ELSE IF i = 7 THEN 9 ELSE 13 - i]]
LongCompetitors ==
    <<[competitor_id |-> 1, country |-> "France"],
      [competitor_id |-> 2, country |-> None],
      [competitor_id |-> 3, country |-> "Spain"],
      [competitor_id |-> 4, country |-> "Chile"]>>

\* tables whose nullable columns are all NULL
NullCompetitors ==
    <<[competitor_id |-> 1, country |-> None],
      [competitor_id |-> 2, country |-> None]>>
NullCategories == <<[category_id |-> 1, category_name |-> None]>>

Database(competitors, rankings, complexes, venues, categories, competitions) ==
    (Q_competitors :> competitors) @@ (Q_rankings :> rankings)
    @@ (Q_complexes :> complexes) @@ (Q_venues :> venues)
    @@ (Q_categories :> categories) @@ (Q_competitions :> competitions)

BaseDatabase ==
    Database(BaseCompetitors, BaseRankings, BaseComplexes, BaseVenues,
             BaseCategories, BaseCompetitions)

LongDatabase ==
    Database(LongCompetitors, LongRankings, BaseComplexes, BaseVenues,
             BaseCategories, BaseCompetitions)

NullDatabase ==
    Database(NullCompetitors, BaseRankings, BaseComplexes, BaseVenues,
             NullCategories, BaseCompetitions)

\* every pair of tables up to MaxRows rows for one of the three joins, the
\* other tables as in the base database
Databases ==
    {Database(c, r, BaseComplexes, BaseVenues, BaseCategories, BaseCompetitions) :
        c \in Seqs(CompetitorRows, MaxRows), r \in RankingTables(MaxRows)}
    \cup
    {Database(BaseCompetitors, BaseRankings, c, v, BaseCategories, BaseCompetitions) :
        c \in Seqs(ComplexRows, MaxRows), v \in Seqs(VenueRows, MaxRows)}
    \cup
    {Database(BaseCompetitors, BaseRankings, BaseComplexes, BaseVenues, c, k) :
        c \in Seqs(CategoryRows, MaxRows), k \in Seqs(CompetitionRows, MaxRows)}
    \cup {LongDatabase, NullDatabase}

Init ==
    /\ server_up \in BOOLEAN
    /\ \/ db_tables \in Databases /\ db_fail = {}
       \/ db_tables = BaseDatabase /\ db_fail \in (SUBSET Queries) \ {{}}
    /\ conn_cache = Unset
    /\ connect_calls = 0
    /\ data_cache = [q \in Queries |-> [cached |-> FALSE, df |-> <<>>]]
    /\ execute_calls = [q \in Queries |-> 0]
    /\ session_state = DefaultState
    /\ user_action = "start"
    /\ selected_country = None
    /\ selected_category = None
    /\ df_merged = <<>>
    /\ venue_info = <<>>
    /\ comp_info = <<>>
    /\ filtered_df = <<>>
    /\ filtered_comp = <<>>
    /\ top10 = <<>>
    /\ raised = FALSE

Next == Rerun \/ ApplyFilters \/ ClearFilters \/ ServerToggle

Spec == Init /\ [][Next]_vars

(***************************************************************************)
(* Properties                                                              *)
(***************************************************************************)
\* the tables the last load delivered (empty before the first load and
\* when there is no connection)
df_rankings == data_cache[Q_rankings].df
df_competitors == data_cache[Q_competitors].df
df_venues == data_cache[Q_venues].df
df_complexes == data_cache[Q_complexes].df
df_competition == data_cache[Q_competitions].df
df_category == data_cache[Q_categories].df

\* the script has run at least once
Rendered == user_action # "start"

\* rows of df whose column col equals value, in df's order
RowsEqual(df, col, value) ==
    LET Keep(r) == r[col] = value
    IN  SelectSeq(df, Keep)

\* C1: the filter state changes only with the two user actions: a run with
\* "Apply Filters" leaves applied = TRUE and the two selectbox values of that
\* run stored as they are (None included), a run with "Clear Filters" leaves
\* the defaults, and any other step leaves the three fields as they were.
C1_FilterStateTransitions ==
    [][/\ user_action' = "apply" =>
            session_state' = [filters_applied |-> TRUE,
                              submitted_country |-> selected_country',
                              submitted_category |-> selected_category']
       /\ user_action' = "clear" => session_state' = DefaultState
       /\ user_action' \notin {"apply", "clear"} =>
            session_state' = session_state]_vars

\* an Apply run stored an absent country next to a present category
C1_Witness ==
    /\ user_action = "apply"
    /\ session_state.filters_applied
    /\ session_state.submitted_country = None
    /\ session_state.submitted_category = "ATP"

\* C2: the country filter (resp. category filter) hands on its input as it
\* is whenever the filter is not applied, or no country (resp. category) is
\* stored, or the input has no rows, whatever the other stored value is.
C2_FilterPassThrough ==
    /\ (\/ ~session_state.filters_applied
        \/ session_state.submitted_country = None
        \/ empty(df_merged)) => filtered_df = df_merged
    /\ (\/ ~session_state.filters_applied
        \/ session_state.submitted_category = None
        \/ empty(comp_info)) => filtered_comp = comp_info

\* the filter is applied with no country stored, and rows pass through
C2_Witness ==
    /\ user_action = "apply"
    /\ session_state.filters_applied
    /\ session_state.submitted_country = None
    /\ ~empty(df_merged)
    /\ filtered_df = df_merged

\* C3 (as claimed): applied, with a stored value and a non-empty input, the
\* filtered view is exactly the input rows whose country (resp. category_name)
\* equals the stored value, in input order; none when the value occurs nowhere.
C3_FilterExactMatch ==
    /\ (/\ session_state.filters_applied
        /\ session_state.submitted_country # None
        /\ ~empty(df_merged))
            => filtered_df =
                    RowsEqual(df_merged, "country", session_state.submitted_country)
    /\ (/\ session_state.filters_applied
        /\ session_state.submitted_category # None
        /\ ~empty(comp_info))
            => filtered_comp =
                    RowsEqual(comp_info, "category_name",
                              session_state.submitted_category)

\* C4 (as claimed): while a submitted country c is stored, every row of the
\* rankings view has country c, in the Apply run and in all later runs; from
\* the Clear run on the rankings view is the whole unfiltered join again.
C4_FilterPersistsUntilClear ==
    /\ (session_state.filters_applied /\ session_state.submitted_country # None)
            => \A i \in 1..Len(filtered_df) :
                    filtered_df[i].country = session_state.submitted_country
    /\ ~session_state.filters_applied => filtered_df = df_merged

\* how often row r occurs in df
Count(df, r) == Cardinality({i \in 1..Len(df) : df[i] = r})

\* top is the first n rows of rows in ascending order of rank (NaN last):
\* it is sorted, made of rows of rows, and no row left out sorts before a
\* row of it
IsTopOf(top, rows, n) ==
    /\ Len(top) = Min(n, Len(rows))
    /\ \A i, j \in 1..Len(top) :
            i < j => ~RankBefore(top[j].rank, top[i].rank)
    /\ \A i \in 1..Len(top) : Count(top, top[i]) <= Count(rows, top[i])
    /\ \A k \in 1..Len(rows) :
            Count(top, rows[k]) < Count(rows, rows[k]) =>
                \A i \in 1..Len(top) : ~RankBefore(rows[k].rank, top[i].rank)

\* C5: in every run, whatever Apply and Clear actions came before, the top
\* 10 is the first 10 rows of the unfiltered join in ascending order of rank:
\* once the data is loaded it is the same in every filter state, also while
\* the rankings view is filtered down to fewer rows.
C5_TopTenUnfiltered ==
    /\ [](IsTopOf(top10, df_merged, TopN))
    /\ [][Rendered => top10' = top10]_vars

\* more than 10 ranked rows, and a filter that leaves fewer than 10 of them
C5_Witness ==
    /\ session_state.filters_applied
    /\ Len(df_merged) > TopN
    /\ Len(top10) = TopN
    /\ Len(filtered_df) > 0
    /\ Len(filtered_df) < TopN

\* no two rows of df have the same value in column key
UniqueKey(df, key) ==
    \A i, j \in 1..Len(df) : df[i][key] = df[j][key] => i = j

\* out is left, row by row and in left's order, each row extended by the
\* columns of a right row with the same key, or by nulls when there is none
IsLeftJoin(out, left, right, key) ==
    /\ Len(out) = Len(left)
    /\ \A i \in 1..Len(left) :
        /\ \A c \in DOMAIN left[i] : out[i][c] = left[i][c]
        /\ IF \E j \in 1..Len(right) : right[j][key] = left[i][key]
           THEN \E j \in 1..Len(right) :
                    /\ right[j][key] = left[i][key]
                    /\ \A c \in DOMAIN right[j] : out[i][c] = right[j][c]
           ELSE \A c \in (DOMAIN right[1]) \ {key} : out[i][c] = None

\* the property of C6 for one of the three joins, given what restricts right
JoinPreservesLeft(out, left, right, key, restriction) ==
    (Rendered /\ ~empty(left) /\ ~empty(right) /\ restriction)
        => IsLeftJoin(out, left, right, key)

\* C6 (as claimed): for all non-empty left and right, the join has exactly
\* len(left) rows: every left row once, in left's order, its own fields
\* unchanged, the right columns filled on a key match and null otherwise.
C6_JoinCardinality ==
    /\ JoinPreservesLeft(df_merged, df_rankings, df_competitors,
                         "competitor_id", TRUE)
    /\ JoinPreservesLeft(venue_info, df_venues, df_complexes, "complex_id", TRUE)
    /\ JoinPreservesLeft(comp_info, df_competition, df_category,
                         "category_id", TRUE)

\* C6 (amended): the same for all non-empty left and right in which no two
\* rows of right have the same key.
C6_JoinCardinalityUniqueKey ==
    /\ JoinPreservesLeft(df_merged, df_rankings, df_competitors, "competitor_id",
                         UniqueKey(df_competitors, "competitor_id"))
    /\ JoinPreservesLeft(venue_info, df_venues, df_complexes, "complex_id",
                         UniqueKey(df_complexes, "complex_id"))
    /\ JoinPreservesLeft(comp_info, df_competition, df_category, "category_id",
                         UniqueKey(df_category, "category_id"))

\* two ranked rows, one with a competitor and one without
C6_Witness ==
    /\ Rendered
    /\ Len(df_rankings) = 2
    /\ UniqueKey(df_competitors, "competitor_id")
    /\ Len(df_merged) = 2
    /\ df_merged[1].country = None
    /\ df_merged[2].country = "France"

\* the property of C7 for one of the three joins; empty_right says what the
\* join is when left has rows and right has none
JoinOfEmpty(out, left, right, empty_right) ==
    Rendered => /\ empty(left) => empty(out)
                /\ (~empty(left) /\ empty(right)) => empty_right

\* out is left with nothing changed in the columns of left
KeepsLeft(out, left) ==
    /\ Len(out) = Len(left)
    /\ \A i \in 1..Len(left) : \A c \in DOMAIN left[i] : out[i][c] = left[i][c]

\* C7 (as claimed): the join of an empty left is empty, and the join with an
\* empty right is every row of left (its right columns null).
C7_JoinEmptySides ==
    /\ JoinOfEmpty(df_merged, df_rankings, df_competitors,
                   KeepsLeft(df_merged, df_rankings))
    /\ JoinOfEmpty(venue_info, df_venues, df_complexes,
                   KeepsLeft(venue_info, df_venues))
    /\ JoinOfEmpty(comp_info, df_competition, df_category,
                   KeepsLeft(comp_info, df_competition))

\* C7 (amended): the join of an empty left is empty, and the join with an
\* empty right is empty as well.
C7_JoinEmptyIsEmpty ==
    /\ JoinOfEmpty(df_merged, df_rankings, df_competitors, empty(df_merged))
    /\ JoinOfEmpty(venue_info, df_venues, df_complexes, empty(venue_info))
    /\ JoinOfEmpty(comp_info, df_competition, df_category, empty(comp_info))

\* rankings were loaded, the competitors table came back without rows
C7_Witness ==
    /\ Rendered
    /\ conn_cache = Conn
    /\ ~empty(df_rankings)
    /\ empty(df_competitors)
    /\ empty(df_merged)

\* C8: no connection failure and no query failure leaves the data access
\* layer: no run raises, a failed query is an empty table, and without a
\* connection the three joined views (and what is derived from them) are empty.
C8_FailuresContained ==
    /\ ~raised
    /\ \A q \in db_fail : empty(data_cache[q].df)
    /\ (Rendered /\ conn_cache = None) =>
            /\ empty(df_merged) /\ empty(venue_info) /\ empty(comp_info)
            /\ empty(filtered_df) /\ empty(filtered_comp) /\ empty(top10)

\* a run in which the connection worked and the rankings query failed
C8_Witness ==
    /\ user_action = "apply"
    /\ conn_cache = Conn
    /\ Q_rankings \in db_fail
    /\ data_cache[Q_rankings].cached
    /\ ~empty(df_competitors)
    /\ empty(df_merged)
    /\ ~raised

\* C9: over any sequence of runs the connection is attempted at most once and
\* every query is executed at most once, and what the first attempt gave (a
\* connection or None, rows or the empty fallback) stays what later runs get.
C9_ConnectAndQueryOnce ==
    /\ [](/\ connect_calls <= 1
          /\ \A q \in Queries : execute_calls[q] <= 1)
    /\ [][/\ conn_cache # Unset => conn_cache' = conn_cache
          /\ \A q \in Queries :
                data_cache[q].cached => data_cache'[q] = data_cache[q]]_vars

\* the first attempt failed; the server is reachable now and a later run
\* still got no connection
C9_Witness ==
    /\ user_action = "rerun"
    /\ server_up
    /\ conn_cache = None
    /\ connect_calls = 1

\* C10: whenever filters_applied is False, submitted_country and
\* submitted_category are None.
C10_NotAppliedMeansNoValues ==
    ~session_state.filters_applied =>
        /\ session_state.submitted_country = None
        /\ session_state.submitted_category = None

\* a Clear run, with options in both selectboxes, left the defaults
C10_Witness ==
    /\ user_action = "clear"
    /\ selected_country = "France"
    /\ selected_category = "ATP"
    /\ session_state = DefaultState

====
